---- MODULE Spec2Model ----
(***************************************************************************)
(* A model of palettegen (src/main.py): extract_colors composes an         *)
(* 11-entry palette from the 5 k-means centroids of an image, the two      *)
(* writers serialise it, and main() drives the command line run.           *)
(*                                                                         *)
(* Numbers.  A centroid channel is a rational <<n, d>> (d > 0, lowest      *)
(* terms); Python's float arithmetic is modelled by exact rational         *)
(* arithmetic, and int() by truncation toward zero.  A hex string is the   *)
(* sequence of its characters, so "#0a10ff" is <<"#","0","a","1","0",      *)
(* "f","f">>.                                                              *)
(***************************************************************************)
EXTENDS Integers, Sequences, FiniteSets, TLC

VARIABLES
    image,            \* the file at image_path: what exists there and what it decodes to
    out_dir,          \* whether args.output_dir exists as a directory
    ini_file,         \* content of the INI destination, or NoFile
    rasi_file,        \* content of the RASI destination, or NoFile
    cluster_centers,  \* clt.cluster_centers_ (unsorted), or <<>> before the fit
    palette,          \* the palette mapping handled by the run, or None
    pc,               \* position of the run
    exit_status,      \* <<>> while running, then <<status>> of the process
    error,            \* the exception that ended the run, or "none"
    stdout,           \* the messages printed so far
    calls,            \* history: the steps taken so far, in order
    other_centers,    \* a second clustering outcome (twin run), or <<>>
    other_palette     \* the palette composed from other_centers, or None

vars == <<image, out_dir, ini_file, rasi_file, cluster_centers, palette, pc,
          exit_status, error, stdout, calls, other_centers, other_palette>>

\* Python's None where a palette mapping is expected (a mapping itself, so that
\* it can be compared with palettes)
None == [none \in {"None"} |-> "None"]

\* a destination that does not exist, and one that holds earlier content
NoFile == [kind |-> "absent", lines |-> <<>>]
OldFile == [kind |-> "old", lines |-> <<>>]

NoImage == [exists |-> FALSE, decodable |-> FALSE, height |-> 0, width |-> 0, n_distinct |-> 0]

-----------------------------------------------------------------------------
(* Exact rational arithmetic standing for Python floats.                   *)

RECURSIVE Gcd(_, _)
Gcd(a, b) == IF b = 0 THEN a ELSE Gcd(b, a % b)

Abs(n) == IF n < 0 THEN -n ELSE n

\* n/d in lowest terms with a positive denominator
Rat(n, d) ==
    LET s == IF d < 0 THEN -1 ELSE 1
        g == Gcd(Abs(n), Abs(d))
    IN  <<(s * n) \div g, (s * d) \div g>>

RInt(n) == <<n, 1>>

RAdd(x, y) ==
    LET g == Gcd(x[2], y[2])
    IN  Rat(x[1] * (y[2] \div g) + y[1] * (x[2] \div g), (x[2] \div g) * y[2])

RNeg(x) == <<-x[1], x[2]>>

RSub(x, y) == RAdd(x, RNeg(y))

RMul(x, y) ==
    LET a == Rat(x[1], y[2])
        b == Rat(y[1], x[2])
    IN  <<a[1] * b[1], a[2] * b[2]>>

RDiv(x, y) == RMul(x, Rat(y[2], y[1]))

\* comparisons over the least common denominator
RLt(x, y) ==
    LET g == Gcd(x[2], y[2])
    IN  x[1] * (y[2] \div g) < y[1] * (x[2] \div g)

RLe(x, y) ==
    LET g == Gcd(x[2], y[2])
    IN  x[1] * (y[2] \div g) <= y[1] * (x[2] \div g)

RMax(x, y) == IF RLt(x, y) THEN y ELSE x

RMin(x, y) == IF RLt(y, x) THEN y ELSE x

\* x % 1.0: Python's float modulo takes the sign of the divisor
RMod1(x) == <<x[1] % x[2], x[2]>>

\* int(x): truncation toward zero
IntTrunc(x) == IF x[1] >= 0 THEN x[1] \div x[2] ELSE -((-x[1]) \div x[2])

-----------------------------------------------------------------------------
(* colorsys, as called by tweak_saturation.                                *)

ONE_THIRD == <<1, 3>>
ONE_SIXTH == <<1, 6>>
TWO_THIRD == <<2, 3>>
HALF == <<1, 2>>

\* colorsys.rgb_to_hls(r, g, b) -> <<h, l, s>>
rgb_to_hls(r, g, b) ==
    LET maxc == RMax(RMax(r, g), b)
        minc == RMin(RMin(r, g), b)
        sumc == RAdd(maxc, minc)
        rangec == RSub(maxc, minc)
        l == RDiv(sumc, RInt(2))
    IN  IF minc = maxc THEN <<RInt(0), l, RInt(0)>>
        ELSE
          LET s == IF RLe(l, HALF) THEN RDiv(rangec, sumc)
                   ELSE RDiv(rangec, RSub(RSub(RInt(2), maxc), minc))
              rc == RDiv(RSub(maxc, r), rangec)
              gc == RDiv(RSub(maxc, g), rangec)
              bc == RDiv(RSub(maxc, b), rangec)
              h0 == IF r = maxc THEN RSub(bc, gc)
                    ELSE IF g = maxc THEN RSub(RAdd(RInt(2), rc), bc)
                    ELSE RSub(RAdd(RInt(4), gc), rc)
          IN  <<RMod1(RDiv(h0, RInt(6))), l, s>>

\* colorsys._v(m1, m2, hue)
v(m1, m2, hue0) ==
    LET hue == RMod1(hue0)
    IN  IF RLt(hue, ONE_SIXTH)
          THEN RAdd(m1, RMul(RMul(RSub(m2, m1), hue), RInt(6)))
        ELSE IF RLt(hue, HALF) THEN m2
        ELSE IF RLt(hue, TWO_THIRD)
          THEN RAdd(m1, RMul(RMul(RSub(m2, m1), RSub(TWO_THIRD, hue)), RInt(6)))
        ELSE m1

\* colorsys.hls_to_rgb(h, l, s) -> <<r, g, b>>
hls_to_rgb(h, l, s) ==
    IF s = RInt(0) THEN <<l, l, l>>
    ELSE
      LET m2 == IF RLe(l, HALF) THEN RMul(l, RAdd(RInt(1), s))
                ELSE RSub(RAdd(l, s), RMul(l, s))
          m1 == RSub(RMul(RInt(2), l), m2)
      IN  <<v(m1, m2, RAdd(h, ONE_THIRD)), v(m1, m2, h), v(m1, m2, RSub(h, ONE_THIRD))>>

-----------------------------------------------------------------------------
(* extract_colors: luminance sort, hex formatting, shades.                 *)

\* luminance(color) = 0.2126*R + 0.7152*G + 0.0722*B
luminance(color) ==
    RAdd(RAdd(RMul(<<1063, 5000>>, color[1]), RMul(<<447, 625>>, color[2])),
         RMul(<<361, 5000>>, color[3]))

\* sorted() computes the key of every element once and compares the keys: an
\* element is a pair <<key, centre>>
RECURSIVE InsertByKey(_, _)
InsertByKey(sortedSeq, e) ==
    IF sortedSeq = <<>> THEN <<e>>
    ELSE IF RLt(e[1], Head(sortedSeq)[1])
      THEN <<e>> \o sortedSeq
    ELSE <<Head(sortedSeq)>> \o InsertByKey(Tail(sortedSeq), e)

\* insertion after every element whose key is <= the new one keeps the sort stable
RECURSIVE SortFrom(_, _)
SortFrom(done, rest) ==
    IF rest = <<>> THEN done
    ELSE SortFrom(InsertByKey(done, Head(rest)), Tail(rest))

\* mutant: the centers are used in cluster order
sorted_by_luminance_unsorted(cs) == cs

\* sorted(clt.cluster_centers_, key=luminance): ascending and stable
sorted_by_luminance(cs) ==
    LET keyed == [i \in 1..Len(cs) |-> <<luminance(cs[i]), cs[i]>>]
        result == SortFrom(<<>>, keyed)
    IN  [i \in 1..Len(cs) |-> result[i][2]]

HexDigits == <<"0", "1", "2", "3", "4", "5", "6", "7", "8", "9",
               "a", "b", "c", "d", "e", "f">>

RECURSIVE HexOf(_)
HexOf(n) == IF n < 16 THEN <<HexDigits[n + 1]>>
            ELSE HexOf(n \div 16) \o <<HexDigits[(n % 16) + 1]>>

\* "{:02x}".format(n): sign, then the hex digits, zero-padded to width 2
Format02x(n) ==
    LET body == IF n < 0 THEN <<"-">> \o HexOf(-n) ELSE HexOf(n)
    IN  IF Len(body) >= 2 THEN body
        ELSE IF n < 0 THEN <<"-", "0">> \o HexOf(-n) ELSE <<"0">> \o body

\* "#{:02x}{:02x}{:02x}".format(*ints)
FormatHex(ints) ==
    <<"#">> \o Format02x(ints[1]) \o Format02x(ints[2]) \o Format02x(ints[3])

\* round(x), halves up
RoundNearest(x) == (2 * x[1] + x[2]) \div (2 * x[2])

\* mutant: the channels are rounded to the nearest integer
IntChannelsRounded(center) ==
    <<RoundNearest(center[1]), RoundNearest(center[2]), RoundNearest(center[3])>>

\* [int(c) for c in center]
IntChannels(center) == <<IntTrunc(center[1]), IntTrunc(center[2]), IntTrunc(center[3])>>

\* mutant: the scaled saturation is not clamped
ClampSaturationUnclamped(s, factor) == RMul(s, factor)

\* s = min(max(s * factor, 0), 1)
ClampSaturation(s, factor) == RMin(RMax(RMul(s, factor), RInt(0)), RInt(1))

\* tweak_saturation(rgb, factor) -> three ints
tweak_saturation(rgb, factor) ==
    LET r == RDiv(rgb[1], RInt(255))
        g == RDiv(rgb[2], RInt(255))
        b == RDiv(rgb[3], RInt(255))
        hls == rgb_to_hls(r, g, b)
        s == ClampSaturation(hls[3], factor)
        out == hls_to_rgb(hls[1], hls[2], s)
    IN  <<IntTrunc(RMul(out[1], RInt(255))), IntTrunc(RMul(out[2], RInt(255))),
          IntTrunc(RMul(out[3], RInt(255)))>>

\* the factor schedule of the shades
Factors == << <<1, 2>>, <<3, 4>>, <<1, 1>>, <<5, 4>>, <<3, 2>>, <<7, 4>>, <<2, 1>>, <<5, 2>> >>

ShadeNames == <<"shade1", "shade2", "shade3", "shade4",
                "shade5", "shade6", "shade7", "shade8">>

MainKeys == {"background", "foreground", "foreground-alt"}

PaletteKeys == MainKeys \cup {ShadeNames[k] : k \in 1..8}

\* mutant: the shades derive from the middle centroid
ShadeBaseMiddle == 1 + 1

\* index of the centroid the shades are derived from (centers[1], 0-based)
ShadeBase == 1

\* mutant: the shades are numbered in iteration order
ShadeKeyAscending(i) == ShadeNames[i]

\* f"shade{9 - i}" for the i-th shade (enumerate(..., start=1))
ShadeKey(i) == ShadeNames[9 - i]

\* the base of the three main colours: centers[0], centers[-1], centers[-2]
MainCenter(centers, key) ==
    IF key = "background" THEN centers[1]
    ELSE IF key = "foreground" THEN centers[Len(centers)]
    ELSE centers[Len(centers) - 1]

\* the palette dict built on lines 39-54 from the sorted centers
compose_palette(centers) ==
    LET shades == [i \in 1..8 |-> tweak_saturation(centers[ShadeBase + 1], Factors[i])]
    IN  [key \in PaletteKeys |->
           IF key \in MainKeys THEN FormatHex(IntChannels(MainCenter(centers, key)))
           ELSE LET i == CHOOSE j \in 1..8 : ShadeKey(j) = key
                IN  FormatHex(shades[i])]

\* lines 28-56: sort the cluster centers, compose and return the palette
palette_of_centers(cs) == compose_palette(sorted_by_luminance(cs))

-----------------------------------------------------------------------------
(* Inputs: the clustering outcomes the model draws from.                   *)

\* number of sample colours a centroid is drawn from
NumColours == 5

\* centroid colours (floating point, pre-rounding), channels in [0, 255]; on
\* each of them float and exact arithmetic give the same luminance order and
\* the same shades
SampleColours ==
    << << <<0, 1>>, <<3, 2>>, <<401, 4>> >>,         \* (0, 1.5, 100.25): dark, saturated
       << <<255, 1>>, <<1017, 4>>, <<255, 1>> >>,    \* (255, 254.25, 255)
       << <<1019, 4>>, <<1019, 4>>, <<1019, 4>> >>,  \* (254.75, 254.75, 254.75)
       << <<100, 1>>, <<125, 1>>, <<733, 4>> >>,     \* (100, 125, 183.25)
       << <<255, 2>>, <<499, 4>>, <<419, 4>> >>,     \* (127.5, 124.75, 104.75): luminance of the 4th
       << <<200, 1>>, <<150, 1>>, <<110, 1>> >>,
       << <<0, 1>>, <<0, 1>>, <<0, 1>> >>,
       << <<255, 1>>, <<255, 1>>, <<255, 1>> >> >>

Min(a, b) == IF a < b THEN a ELSE b

Colours(n) == {SampleColours[i] : i \in 1..Min(n, Len(SampleColours))}

Grey(n) == <<RInt(n), RInt(n), RInt(n)>>

\* the five centroids of the synthetic 5-pixel image
ExampleCenters == <<Grey(0), Grey(255), Grey(128), Grey(10), Grey(245)>>

CentroidInputs == [1..5 -> Colours(NumColours)] \cup {ExampleCenters}

-----------------------------------------------------------------------------
(* Composition alone: extract_colors from the fitted centroids on.         *)

InitCompose ==
    /\ cluster_centers \in CentroidInputs
    /\ palette = None
    /\ pc = "fitted"
    /\ image = NoImage
    /\ out_dir = FALSE
    /\ ini_file = NoFile
    /\ rasi_file = NoFile
    /\ exit_status = <<>>
    /\ error = "none"
    /\ stdout = <<>>
    /\ calls = <<>>
    /\ other_centers = <<>>
    /\ other_palette = None

\* lines 28-56 of extract_colors
Compose ==
    /\ pc = "fitted"
    /\ palette' = palette_of_centers(cluster_centers)
    /\ pc' = "returned"
    /\ UNCHANGED <<image, out_dir, ini_file, rasi_file, cluster_centers,
                   exit_status, error, stdout, calls, other_centers, other_palette>>

NextCompose == Compose

SpecCompose == InitCompose /\ [][NextCompose]_vars

-----------------------------------------------------------------------------
(* The two writers.                                                        *)

\* {}: a mapping with no key
EmptyPalette == [key \in {} |-> <<>>]

\* mutant: only None is skipped (`if palette is None`)
IsFalsyNoneOnly(pal) == pal = None

\* `not palette`: None and the empty mapping are falsy
IsFalsy(pal) == pal = None \/ DOMAIN pal = {}

\* palette.get(key, default)
Get(pal, key, default) == IF key \in DOMAIN pal THEN pal[key] ELSE default

Line(key, value) == [key |-> key, value |-> value]

\* a key written without a value (allow_no_value)
NoValue == <<>>

\* the keys save_palette_to_ini subscripts: a missing one raises KeyError
IniKeys == PaletteKeys

\* the keys save_palette_to_rasi subscripts; the shades go through .get
RasiKeys == {"background", "foreground"}

\* what config.write emits for the [color] section built on lines 69-78
IniContent(pal) ==
    [kind |-> "ini",
     lines |-> <<Line("[color]", NoValue),
                 Line("; main colors", NoValue),
                 Line("background", pal["background"]),
                 Line("foreground", pal["foreground"]),
                 Line("foreground-alt", pal["foreground-alt"]),
                 Line("\n; shades", NoValue)>>
               \o [i \in 1..8 |-> Line(ShadeNames[i], pal[ShadeNames[i]])]]

FF == <<"F", "F">>

Black == <<"#", "0", "0", "0", "0", "0", "0">>

\* rasi_content, lines 93-101
RasiContent(pal) ==
    [kind |-> "rasi",
     lines |-> <<Line("al", <<"#", "0", "0", "0", "0", "0", "0", "0", "0">>),
                 Line("bg", pal["background"] \o FF),
                 Line("bg1", Get(pal, "shade1", Black) \o FF),
                 Line("bg2", Get(pal, "shade2", Black) \o FF),
                 Line("bg3", Get(pal, "shade3", Black) \o FF),
                 Line("bg4", Get(pal, "shade4", Black) \o FF),
                 Line("fg", pal["foreground"] \o FF)>>]

\* the outcome of a writer: the destination afterwards, the exception raised
\* ("none" when it returns) and whether the "saved" message was printed
Outcome(file, raised, printed) == [file |-> file, raised |-> raised, printed |-> printed]

\* mutant: the shades are looked up with .get, as the RASI writer does
save_palette_to_ini_with_get(pal, file, can_open) ==
    IF IsFalsy(pal) THEN Outcome(file, "none", FALSE)
    ELSE IF ~(MainKeys \subseteq DOMAIN pal) THEN Outcome(file, "KeyError", FALSE)
    ELSE IF ~can_open THEN Outcome(file, "OSError", FALSE)
    ELSE Outcome([kind |-> "ini",
                  lines |-> <<Line("[color]", NoValue),
                              Line("; main colors", NoValue),
                              Line("background", pal["background"]),
                              Line("foreground", pal["foreground"]),
                              Line("foreground-alt", pal["foreground-alt"]),
                              Line("\n; shades", NoValue)>>
                            \o [i \in 1..8 |-> Line(ShadeNames[i], Get(pal, ShadeNames[i], Black))]],
                 "none", TRUE)

\* save_palette_to_ini(palette, output_path); can_open: whether open(.., "w") succeeds
save_palette_to_ini(pal, file, can_open) ==
    IF IsFalsy(pal) THEN Outcome(file, "none", FALSE)
    ELSE IF ~(IniKeys \subseteq DOMAIN pal) THEN Outcome(file, "KeyError", FALSE)
    ELSE IF ~can_open THEN Outcome(file, "OSError", FALSE)
    ELSE Outcome(IniContent(pal), "none", TRUE)

\* save_palette_to_rasi(palette, output_path)
save_palette_to_rasi(pal, file, can_open) ==
    IF IsFalsy(pal) THEN Outcome(file, "none", FALSE)
    ELSE IF ~(RasiKeys \subseteq DOMAIN pal) THEN Outcome(file, "KeyError", FALSE)
    ELSE IF ~can_open THEN Outcome(file, "OSError", FALSE)
    ELSE Outcome(RasiContent(pal), "none", TRUE)

-----------------------------------------------------------------------------
(* The writers alone, called on any palette mapping.                       *)

\* number of writer calls made on one palette
MaxCalls == 2

\* a complete palette, the source of the values of the partial ones
FullPalette == palette_of_centers(ExampleCenters)

Restrict(f, keys) == [key \in keys |-> f[key]]

\* None, {} and every mapping with some of the 11 keys
WriterInputs == {None} \cup {Restrict(FullPalette, keys) : keys \in SUBSET PaletteKeys}

InitWriters ==
    /\ palette \in WriterInputs
    /\ ini_file \in {NoFile, OldFile}
    /\ rasi_file = ini_file
    /\ out_dir = TRUE
    /\ pc = "writers"
    /\ image = NoImage
    /\ cluster_centers = <<>>
    /\ exit_status = <<>>
    /\ error = "none"
    /\ stdout = <<>>
    /\ calls = <<>>
    /\ other_centers = <<>>
    /\ other_palette = None

\* the first exception raised stays recorded
Raised(before, raised) == IF before = "none" THEN raised ELSE before

Printed(out, outcome, message) == IF outcome.printed THEN Append(out, message) ELSE out

CallSaveIni ==
    /\ pc = "writers"
    /\ Len(calls) < MaxCalls
    /\ \E can_open \in BOOLEAN :
         LET r == save_palette_to_ini(palette, ini_file, can_open)
         IN  /\ ini_file' = r.file
             /\ error' = Raised(error, r.raised)
             /\ stdout' = Printed(stdout, r, "Palette saved")
    /\ calls' = Append(calls, "save_palette_to_ini")
    /\ UNCHANGED <<image, out_dir, rasi_file, cluster_centers, palette, pc,
                   exit_status, other_centers, other_palette>>

CallSaveRasi ==
    /\ pc = "writers"
    /\ Len(calls) < MaxCalls
    /\ \E can_open \in BOOLEAN :
         LET r == save_palette_to_rasi(palette, rasi_file, can_open)
         IN  /\ rasi_file' = r.file
             /\ error' = Raised(error, r.raised)
             /\ stdout' = Printed(stdout, r, "RASI palette saved")
    /\ calls' = Append(calls, "save_palette_to_rasi")
    /\ UNCHANGED <<image, out_dir, ini_file, cluster_centers, palette, pc,
                   exit_status, other_centers, other_palette>>

NextWriters == CallSaveIni \/ CallSaveRasi

SpecWriters == InitWriters /\ [][NextWriters]_vars

-----------------------------------------------------------------------------
(* Two clustering outcomes composed side by side.                          *)

\* number of sample colours the twin outcomes are drawn from
NumTwinColours == 2

\* other_centers is cluster_centers with one centroid replaced
InitTwin ==
    /\ cluster_centers \in [1..5 -> Colours(NumTwinColours)]
    /\ other_centers \in {[cluster_centers EXCEPT ![p] = m] :
                            p \in 1..5, m \in Colours(NumTwinColours)}
    /\ palette = None
    /\ other_palette = None
    /\ pc = "fitted"
    /\ image = NoImage
    /\ out_dir = FALSE
    /\ ini_file = NoFile
    /\ rasi_file = NoFile
    /\ exit_status = <<>>
    /\ error = "none"
    /\ stdout = <<>>
    /\ calls = <<>>

\* lines 28-56 of extract_colors, on the second outcome
ComposeOther ==
    /\ other_centers # <<>>
    /\ other_palette = None
    /\ other_palette' = palette_of_centers(other_centers)
    /\ UNCHANGED <<image, out_dir, ini_file, rasi_file, cluster_centers, palette, pc,
                   exit_status, error, stdout, calls, other_centers>>

NextTwin == Compose \/ ComposeOther

SpecTwin == InitTwin /\ [][NextTwin]_vars

-----------------------------------------------------------------------------
(* main(): the command line run.                                           *)

\* largest height and width of an image
MaxSide == 4

\* largest number of distinct pixel colours of an image
MaxDistinct == 5

\* n_clusters = 5
n_clusters == 5

\* image.shape[0] * image.shape[1]: the number of samples handed to KMeans
NumPixels(img) == img.height * img.width

\* a path with nothing there, a file cv2 cannot decode, and the decodable images
Images ==
    {NoImage, [NoImage EXCEPT !.exists = TRUE]}
    \cup {[exists |-> TRUE, decodable |-> TRUE, height |-> h, width |-> w, n_distinct |-> d] :
            h \in 1..MaxSide, w \in 1..MaxSide, d \in 1..MaxDistinct}

\* mutant: the existence check always passes
PathExistsAlways(img) == TRUE

\* os.path.exists(args.image_path)
PathExists(img) == img.exists

\* cv2.imread returns None for a file it cannot decode, and cv2.cvtColor raises on None
DecodeRaises(img) == ~img.decodable

\* mutant: the fit never raises
FitRaisesNever(img) == FALSE

\* KMeans(n_clusters).fit raises ValueError when n_samples < n_clusters
FitRaises(img) == NumPixels(img) < n_clusters

\* the centroids a fit can end with: 5 colours, no more distinct ones than the
\* image has distinct pixel colours (drawn from the first two sample colours)
FitOutcomes(img) ==
    {cs \in [1..n_clusters -> Colours(2)] :
        Cardinality({cs[i] : i \in 1..n_clusters}) <= img.n_distinct}

\* mutant: the run goes on after a writer raised
RunGoesOnAlways(outcome) == TRUE

\* an exception raised by a writer is not caught: the run goes on only if it returned
RunGoesOn(outcome) == outcome.raised = "none"

Init ==
    /\ image \in {img \in Images : img.decodable => img.n_distinct <= NumPixels(img)}
    /\ out_dir \in BOOLEAN
    /\ ini_file \in {NoFile, OldFile}
    /\ rasi_file = ini_file
    /\ out_dir = FALSE => ini_file = NoFile
    /\ cluster_centers = <<>>
    /\ palette = None
    /\ pc = "check"
    /\ exit_status = <<>>
    /\ error = "none"
    /\ stdout = <<>>
    /\ calls = <<>>
    /\ other_centers = <<>>
    /\ other_palette = None

\* lines 121-124: the existence check, and sys.exit(1) on a missing path
CheckImageExists ==
    /\ pc = "check"
    /\ calls' = Append(calls, "exists")
    /\ IF PathExists(image)
         THEN /\ pc' = "makedirs"
              /\ UNCHANGED <<stdout, exit_status>>
         ELSE /\ stdout' = Append(stdout, "Error: Image file not found")
              /\ exit_status' = <<1>>
              /\ pc' = "exited"
    /\ UNCHANGED <<image, out_dir, ini_file, rasi_file, cluster_centers, palette,
                   error, other_centers, other_palette>>

\* line 127: os.makedirs(args.output_dir, exist_ok=True); creating a missing
\* directory can fail
MakeDirs ==
    /\ pc = "makedirs"
    /\ calls' = Append(calls, "makedirs")
    /\ \E can_create \in BOOLEAN :
         IF out_dir \/ can_create
           THEN /\ out_dir' = TRUE
                /\ pc' = "extract"
                /\ UNCHANGED <<error, exit_status>>
           ELSE /\ error' = "OSError"
                /\ exit_status' = <<1>>
                /\ pc' = "exited"
                /\ UNCHANGED out_dir
    /\ UNCHANGED <<image, ini_file, rasi_file, cluster_centers, palette, stdout,
                   other_centers, other_palette>>

\* line 134: palette = extract_colors(args.image_path), all of lines 15-56
ExtractColors ==
    /\ pc = "extract"
    /\ calls' = Append(calls, "extract_colors")
    /\ IF DecodeRaises(image)
         THEN /\ error' = "cv2.error"
              /\ exit_status' = <<1>>
              /\ pc' = "exited"
              /\ UNCHANGED <<cluster_centers, palette>>
         ELSE IF FitRaises(image)
         THEN /\ error' = "ValueError"
              /\ exit_status' = <<1>>
              /\ pc' = "exited"
              /\ UNCHANGED <<cluster_centers, palette>>
         ELSE /\ cluster_centers' \in FitOutcomes(image)
              /\ palette' = palette_of_centers(cluster_centers')
              /\ pc' = "returned"
              /\ UNCHANGED <<error, exit_status>>
    /\ UNCHANGED <<image, out_dir, ini_file, rasi_file, stdout, other_centers, other_palette>>

\* lines 136-137: `if palette:` and save_palette_to_ini(palette, ini_path)
SaveIni ==
    /\ pc = "returned"
    /\ IF IsFalsy(palette)
         THEN /\ pc' = "done"
              /\ exit_status' = <<0>>
              /\ UNCHANGED <<ini_file, error, stdout, calls>>
         ELSE \E can_open \in BOOLEAN :
                LET r == save_palette_to_ini(palette, ini_file, can_open)
                IN  /\ ini_file' = r.file
                    /\ error' = r.raised
                    /\ stdout' = Printed(stdout, r, "Palette saved")
                    /\ calls' = Append(calls, "save_palette_to_ini")
                    /\ pc' = IF RunGoesOn(r) THEN "save_rasi" ELSE "exited"
                    /\ exit_status' = IF RunGoesOn(r) THEN <<>> ELSE <<1>>
    /\ UNCHANGED <<image, out_dir, rasi_file, cluster_centers, palette,
                   other_centers, other_palette>>

\* line 138: save_palette_to_rasi(palette, rasi_path), then the run ends
SaveRasi ==
    /\ pc = "save_rasi"
    /\ \E can_open \in BOOLEAN :
         LET r == save_palette_to_rasi(palette, rasi_file, can_open)
         IN  /\ rasi_file' = r.file
             /\ error' = Raised(error, r.raised)
             /\ stdout' = Printed(stdout, r, "RASI palette saved")
             /\ exit_status' = IF r.raised = "none" /\ error = "none" THEN <<0>> ELSE <<1>>
    /\ calls' = Append(calls, "save_palette_to_rasi")
    /\ pc' = "done"
    /\ UNCHANGED <<image, out_dir, ini_file, cluster_centers, palette,
                   other_centers, other_palette>>

Next == CheckImageExists \/ MakeDirs \/ ExtractColors \/ SaveIni \/ SaveRasi

Spec == Init /\ [][Next]_vars

-----------------------------------------------------------------------------
(* Vocabulary of the properties of the composed palette.                   *)

LowerHex == {HexDigits[i] : i \in 1..16}

\* '#' followed by exactly 6 lowercase hex digits
IsHexColour(str) ==
    /\ Len(str) = 7
    /\ str[1] = "#"
    /\ \A i \in 2..7 : str[i] \in LowerHex

DigitValue(ch) == (CHOOSE i \in 1..16 : HexDigits[i] = ch) - 1

\* the three integer channels a '#rrggbb' string decodes to
Decode(str) ==
    <<16 * DigitValue(str[2]) + DigitValue(str[3]),
      16 * DigitValue(str[4]) + DigitValue(str[5]),
      16 * DigitValue(str[6]) + DigitValue(str[7])>>

\* 10000 * (0.2126*R + 0.7152*G + 0.0722*B) on decoded channels
DecodedLuminance(str) ==
    LET c == Decode(str) IN 2126 * c[1] + 7152 * c[2] + 722 * c[3]

\* the centroid that belongs at 0-based index k of the ascending stable order by
\* luminance: the one with exactly k centroids before it, a centroid of equal
\* luminance being before it when it comes earlier in cluster order
SortedAt(cs, k) ==
    LET lum == [i \in 1..Len(cs) |-> luminance(cs[i])]
        before(i) == {j \in 1..Len(cs) : RLt(lum[j], lum[i]) \/ (lum[j] = lum[i] /\ j < i)}
    IN  cs[CHOOSE i \in 1..Len(cs) : Cardinality(before(i)) = k]

IsIntegral(c) == \A ch \in 1..3 : c[ch][2] = 1

\* d is the integer part of every channel of c
IsTruncationOf(d, c) ==
    \A ch \in 1..3 : RLe(RInt(d[ch]), c[ch]) /\ RLt(c[ch], RInt(d[ch] + 1))

\* d is every channel of c rounded to the nearest integer, clamped to [0, 255]
IsRoundingOf(d, c) ==
    \A ch \in 1..3 :
        LET n == RoundNearest(c[ch])
        IN  d[ch] = (IF n < 0 THEN 0 ELSE IF n > 255 THEN 255 ELSE n)

Returned == pc = "returned"

-----------------------------------------------------------------------------
(* Properties of the composed palette, under SpecCompose.                  *)

\* C1: the returned palette has exactly the 11 keys background, foreground,
\* foreground-alt, shade1..shade8, and every value is '#' followed by exactly
\* 6 lowercase hex digits.
C1_ElevenValidHexEntries ==
    Returned =>
        /\ DOMAIN palette = {"background", "foreground", "foreground-alt",
                             "shade1", "shade2", "shade3", "shade4",
                             "shade5", "shade6", "shade7", "shade8"}
        /\ Cardinality(DOMAIN palette) = 11
        /\ \A key \in DOMAIN palette : IsHexColour(palette[key])

\* a palette whose shade base has fractional channels, whose two most
\* saturated shades coincide (saturation clamped at 1) and differ from the
\* least saturated one, with a channel at 00 and a foreground channel at ff
C1_Witness ==
    /\ Returned
    /\ ~IsIntegral(SortedAt(cluster_centers, 1))
    /\ palette["shade1"] = palette["shade2"]
    /\ palette["shade1"] # palette["shade8"]
    /\ \E ch \in 1..3 : Decode(palette["shade1"])[ch] = 0
    /\ \E ch \in 1..3 : Decode(palette["foreground"])[ch] = 255

\* C2 as stated: on the channels decoded from the emitted strings,
\* luminance(background) <= luminance(foreground-alt) <= luminance(foreground)
\* for every set of 5 centroids, fractional ones included.
C2_DecodedLuminanceOrdered ==
    Returned =>
        /\ DecodedLuminance(palette["background"]) <= DecodedLuminance(palette["foreground-alt"])
        /\ DecodedLuminance(palette["foreground-alt"]) <= DecodedLuminance(palette["foreground"])

\* C2 amended: the decoded luminances are ordered whenever the centroids are
\* integer-valued; with fractional centroids the truncation can reverse the
\* order, by less than one luminance unit.
C2_OrderedUpToTruncation ==
    Returned =>
        LET bg == DecodedLuminance(palette["background"])
            fa == DecodedLuminance(palette["foreground-alt"])
            fg == DecodedLuminance(palette["foreground"])
        IN  /\ bg < fa + 10000
            /\ fa < fg + 10000
            /\ (\A i \in 1..5 : IsIntegral(cluster_centers[i])) => bg <= fa /\ fa <= fg

\* fractional centroids whose emitted foreground is darker than foreground-alt
C2_Witness ==
    /\ Returned
    /\ DecodedLuminance(palette["foreground-alt"]) > DecodedLuminance(palette["foreground"])

\* C3 as stated: background, foreground and foreground-alt encode the sorted
\* centroids at indices 0, 4 and 3, each channel rounded to the nearest integer
\* and clamped to [0, 255].
C3_RolesRoundedToNearest ==
    Returned =>
        /\ IsRoundingOf(Decode(palette["background"]), SortedAt(cluster_centers, 0))
        /\ IsRoundingOf(Decode(palette["foreground"]), SortedAt(cluster_centers, 4))
        /\ IsRoundingOf(Decode(palette["foreground-alt"]), SortedAt(cluster_centers, 3))

\* C3 amended: background, foreground and foreground-alt encode the stably
\* sorted centroids at indices 0, 4 and 3, each channel truncated toward zero;
\* the centroids of the synthetic 5-pixel image give #000000, #f5f5f5, #ffffff.
C3_RolesTruncated ==
    Returned =>
        /\ IsTruncationOf(Decode(palette["background"]), SortedAt(cluster_centers, 0))
        /\ IsTruncationOf(Decode(palette["foreground"]), SortedAt(cluster_centers, 4))
        /\ IsTruncationOf(Decode(palette["foreground-alt"]), SortedAt(cluster_centers, 3))
        /\ cluster_centers = ExampleCenters =>
              /\ palette["background"] = <<"#", "0", "0", "0", "0", "0", "0">>
              /\ palette["foreground-alt"] = <<"#", "f", "5", "f", "5", "f", "5">>
              /\ palette["foreground"] = <<"#", "f", "f", "f", "f", "f", "f">>

\* a foreground centroid with a channel of fraction .75, emitted one below its
\* nearest integer, with two distinct centroids tied in luminance below it
C3_Witness ==
    /\ Returned
    /\ ~IsRoundingOf(Decode(palette["foreground"]), SortedAt(cluster_centers, 4))
    /\ \E i, j \in 1..5 :
          /\ cluster_centers[i] # cluster_centers[j]
          /\ luminance(cluster_centers[i]) = luminance(cluster_centers[j])

\* C4: all 8 shades derive from the sorted centroid at index 1, and the i-th
\* factor of [0.5, 0.75, 1.0, 1.25, 1.5, 1.75, 2.0, 2.5] is stored under
\* shade(9-i): 0.5 under shade8, 2.5 under shade1, each key assigned once.
C4_ShadesInvertedFromIndexOne ==
    Returned =>
        LET base == SortedAt(cluster_centers, 1)
            schedule == << <<1, 2>>, <<3, 4>>, <<1, 1>>, <<5, 4>>,
                           <<3, 2>>, <<7, 4>>, <<2, 1>>, <<5, 2>> >>
            shade == [i \in 1..8 |-> FormatHex(tweak_saturation(base, schedule[i]))]
        IN  /\ palette["shade8"] = shade[1]
            /\ palette["shade1"] = shade[8]
            /\ \A i \in 1..8 :
                  /\ ShadeNames[9 - i] \in DOMAIN palette
                  /\ palette[ShadeNames[9 - i]] = shade[i]

\* a palette whose 8 shades are pairwise different and whose base differs from
\* the centroids next to it in the sorted order
C4_Witness ==
    /\ Returned
    /\ \A i, j \in 1..8 : i # j => palette[ShadeNames[i]] # palette[ShadeNames[j]]
    /\ SortedAt(cluster_centers, 1) # SortedAt(cluster_centers, 0)
    /\ SortedAt(cluster_centers, 1) # SortedAt(cluster_centers, 2)

-----------------------------------------------------------------------------
(* Properties of the twin composition, under SpecTwin.                     *)

BothReturned == pc = "returned" /\ other_palette # None

AgreeOutsideMiddle ==
    \A k \in {0, 1, 3, 4} : SortedAt(cluster_centers, k) = SortedAt(other_centers, k)

\* C9: two sets of 5 centroids that agree on the sorted centroids at indices
\* 0, 1, 3 and 4 and differ only at sorted index 2 compose identical palettes.
C9_MiddleCentroidUnused ==
    (BothReturned /\ AgreeOutsideMiddle) => palette = other_palette

\* two outcomes that differ in their middle centroid only, both composed
C9_Witness ==
    /\ BothReturned
    /\ AgreeOutsideMiddle
    /\ SortedAt(cluster_centers, 2) # SortedAt(other_centers, 2)

-----------------------------------------------------------------------------
(* Properties of the writers, under SpecWriters.                           *)

\* the destination is as it was before the writers ran
Unwritten(file) == file \in {NoFile, OldFile}

EmptyOrAbsent == palette = None \/ DOMAIN palette = {}

\* C6 as stated: a palette missing any of the 11 keys causes no output file to
\* be written by either writer.
C6_NothingWrittenUnlessElevenKeys ==
    ~(PaletteKeys \subseteq DOMAIN palette) => Unwritten(ini_file) /\ Unwritten(rasi_file)

\* C6 amended: the INI file is written only if all 11 keys are present; the
\* RASI file is written whenever background and foreground are present, with
\* #000000 standing in for each missing shade1..shade4; a palette missing
\* background or foreground causes no file to be written by either writer.
C6_WrittenOnlyWithTheKeysRead ==
    /\ ini_file.kind = "ini" => PaletteKeys \subseteq DOMAIN palette
    /\ rasi_file.kind = "rasi" =>
         /\ {"background", "foreground"} \subseteq DOMAIN palette
         /\ \A k \in 1..4 :
              ShadeNames[k] \notin DOMAIN palette =>
                rasi_file.lines[k + 2].value = <<"#", "0", "0", "0", "0", "0", "0", "F", "F">>
    /\ ~({"background", "foreground"} \subseteq DOMAIN palette) =>
         Unwritten(ini_file) /\ Unwritten(rasi_file)

\* a palette holding only background and foreground: the RASI file is written,
\* the INI writer raised KeyError and left its destination alone
C6_Witness ==
    /\ DOMAIN palette = {"background", "foreground"}
    /\ rasi_file.kind = "rasi"
    /\ Unwritten(ini_file)
    /\ error = "KeyError"
    /\ Len(calls) = 2

\* C7: with an empty or absent palette both writers return without raising and
\* without opening or modifying the destination; an existing destination keeps
\* its content.
C7_EmptyPaletteIsSkipped ==
    /\ [](EmptyOrAbsent => error = "none" /\ stdout = <<>>
                           /\ Unwritten(ini_file) /\ Unwritten(rasi_file))
    /\ [][EmptyOrAbsent => UNCHANGED <<ini_file, rasi_file>>]_vars

\* both writers were called on {} with existing destinations
C7_Witness ==
    /\ palette = EmptyPalette
    /\ calls = <<"save_palette_to_ini", "save_palette_to_rasi">>
    /\ ini_file = OldFile
    /\ rasi_file = OldFile

-----------------------------------------------------------------------------
(* Properties of the command line run, under Spec.                         *)

Steps == <<"exists", "makedirs", "extract_colors", "save_palette_to_ini", "save_palette_to_rasi">>

IsPrefix(p, q) == Len(p) <= Len(q) /\ \A i \in 1..Len(p) : p[i] = q[i]

\* C5: with a path that does not exist the run ends with status 1 after the
\* not-found message, with no filesystem change and no call of extract_colors.
C5_MissingPathExitsUntouched ==
    /\ []((~image.exists /\ pc # "check") =>
            /\ pc = "exited"
            /\ exit_status = <<1>>
            /\ stdout = <<"Error: Image file not found">>
            /\ calls = <<"exists">>
            /\ cluster_centers = <<>>
            /\ palette = None)
    /\ [][~image.exists => UNCHANGED <<out_dir, ini_file, rasi_file>>]_vars

\* a run on a missing path has ended and the output directory was not created
C5_Witness ==
    /\ ~image.exists
    /\ pc = "exited"
    /\ exit_status = <<1>>
    /\ ~out_dir

PaletteReturned == pc \in {"returned", "save_rasi", "done"} \/ palette # None

\* C8 as stated: a decodable image with fewer than 5 distinct pixel colours
\* ends extract_colors in a clustering error, so neither file is written.
C8_FewDistinctColoursRaise ==
    (image.decodable /\ image.n_distinct < 5) =>
        /\ ~PaletteReturned
        /\ Unwritten(ini_file)
        /\ Unwritten(rasi_file)

\* C8 amended: a decodable image with fewer than 5 pixels ends extract_colors
\* in the ValueError of the fit, so neither file is written; an image with at
\* least 5 pixels returns a palette however few distinct colours it has.
C8_FewPixelsRaise ==
    /\ (image.decodable /\ image.height * image.width < 5) =>
          /\ ~PaletteReturned
          /\ Unwritten(ini_file)
          /\ Unwritten(rasi_file)
          /\ Len(calls) >= 3 => error = "ValueError" /\ exit_status = <<1>> /\ pc = "exited"
    /\ (image.decodable /\ image.height * image.width >= 5 /\ Len(calls) >= 3) =>
          /\ palette # None
          /\ error # "ValueError"

\* a solid 2x2 image: the fit raised and the run ended with the directory made
C8_Witness ==
    /\ image.decodable
    /\ image.height = 2 /\ image.width = 2 /\ image.n_distinct = 1
    /\ error = "ValueError"
    /\ pc = "exited"
    /\ out_dir

\* C10: the steps run in the order existence check, directory creation,
\* extraction, out.ini, out.rasi; out.ini is written only after a palette was
\* returned and out.rasi only after out.ini; a decode or clustering failure
\* leaves the directory created and both files unwritten, a failed out.ini
\* write leaves out.rasi unwritten.
C10_StepsInOrder ==
    /\ IsPrefix(calls, Steps)
    /\ ini_file.kind = "ini" => palette # None /\ Len(calls) >= 4
    /\ rasi_file.kind = "rasi" => ini_file.kind = "ini" /\ Len(calls) = 5
    /\ error \in {"cv2.error", "ValueError"} =>
         out_dir /\ Unwritten(ini_file) /\ Unwritten(rasi_file) /\ calls = SubSeq(Steps, 1, 3)
    /\ (Len(calls) >= 4 /\ ini_file.kind # "ini") => Unwritten(rasi_file) /\ pc = "exited"

\* the out.ini write failed: the run has ended and out.rasi was not written
C10_Witness ==
    /\ calls = SubSeq(Steps, 1, 4)
    /\ error = "OSError"
    /\ pc = "exited"
    /\ palette # None
    /\ Unwritten(rasi_file)

====
